---- MODULE Spec2Model ----
(***************************************************************************)
(* Model of the akismet client library: configuration discovery, the       *)
(* AsyncClient request/response protocol adapter and the constructor of    *)
(* the legacy Akismet client.                                              *)
(*                                                                         *)
(* Keys and URLs are sequences of one-character strings, so that           *)
(* emptiness and the startswith() test are computed, not assumed.          *)
(* Response bodies, header values and argument names are compared only by  *)
(* whole-string equality in the code and stay TLA+ strings.                *)
(***************************************************************************)
EXTENDS Integers, Sequences, FiniteSets, TLC

\* ---------------------------------------------------------------------------
\* Bounds of the model.
\* ---------------------------------------------------------------------------

\* Largest number of client instances the caller holds at one time.
MaxInstances == 1

\* Largest number of optional keyword arguments supplied to one call.
MaxKwargs == 2

\* Number of asyncio tasks calling concurrently.
MaxTasks == 2

\* ---------------------------------------------------------------------------
\* Private constants of _common.py.
\* ---------------------------------------------------------------------------

API_V11 == "1.1"
API_V12 == "1.2"
COMMENT_CHECK == "comment-check"
KEY_SITES == "key-sites"
SUBMISSION_RESPONSE == "Thanks for making the web a better place."
SUBMIT_HAM == "submit-ham"
SUBMIT_SPAM == "submit-spam"
USAGE_LIMIT == "usage-limit"
VERIFY_KEY == "verify-key"

KEY_ENV_VAR == "PYTHON_AKISMET_API_KEY"
URL_ENV_VAR == "PYTHON_AKISMET_BLOG_URL"

OPTIONAL_KEYS ==
    { "blog_charset", "blog_lang", "comment_author", "comment_author_email",
      "comment_author_url", "comment_content", "comment_context",
      "comment_date_gmt", "comment_post_modified_gmt", "comment_type",
      "honeypot_field_name", "is_test", "permalink", "recheck_reason",
      "referrer", "user_agent", "user_role" }

\* Variant: the members numbered from 1, as enum.auto() numbers them.
CheckResponse_from_one == [HAM |-> 1, SPAM |-> 2, DISCARD |-> 3]

\* class CheckResponse(enum.IntEnum)
CheckResponse == [HAM |-> 0, SPAM |-> 1, DISCARD |-> 2]

\* ---------------------------------------------------------------------------
\* Python values.
\* ---------------------------------------------------------------------------

\* None: a one-element sequence whose element is not a single character, so
\* it differs from every string (the empty string is <<>>).
None == <<"None">>

\* bool(v) for v a string or None: None and "" are falsy.
Truthy(v) == v # None /\ v # <<>>

\* s.startswith(p): case-sensitive comparison of the leading characters.
StartsWith(s, p) ==
    /\ Len(s) >= Len(p)
    /\ \A i \in 1..Len(p) : s[i] = p[i]

\* url.startswith(("http://", "https://"))
HttpPrefix == <<"h", "t", "t", "p", ":", "/", "/">>
HttpsPrefix == <<"h", "t", "t", "p", "s", ":", "/", "/">>
\* Variant: only the leading "http" is compared.
HasSchemePrefix_http_only(url) == StartsWith(url, <<"h", "t", "t", "p">>)

HasSchemePrefix(url) == StartsWith(url, HttpPrefix) \/ StartsWith(url, HttpsPrefix)

\* os.getenv(name, default) over the environment e (a function whose domain
\* is the set of variables that are set).
Getenv(e, name, default) == IF name \in DOMAIN e THEN e[name] ELSE default

\* response.headers.get(name, default)
HeaderGet(h, name, default) == IF name \in DOMAIN h THEN h[name] ELSE default

\* The dict with no entries.
EmptyDict == [n \in {} |-> ""]

\* Config(key=..., url=...)
Config(k, u) == [key |-> k, url |-> u]

\* ---------------------------------------------------------------------------
\* Input domains.
\* ---------------------------------------------------------------------------

KeyGood == <<"k">>
KeyOther == <<"j">>
UrlHttp == HttpPrefix \o <<"a">>
UrlHttps == HttpsPrefix \o <<"a">>
UrlFtp == <<"f", "t", "p", ":", "/", "/", "a">>
UrlUpper == <<"H", "T", "T", "P", ":", "/", "/", "a">>
UrlNoColon == <<"h", "t", "t", "p", "/", "/", "a">>

\* Values an environment variable or an explicit argument may hold.
KeyValues == {<<>>, KeyGood}
UrlValues == {<<>>, UrlHttp, UrlHttps, UrlFtp, UrlUpper, UrlNoColon}

\* The process environments: each of the two variables unset or set.
Environments ==
    { e \in UNION { [S -> KeyValues \cup UrlValues] :
                        S \in SUBSET {KEY_ENV_VAR, URL_ENV_VAR} } :
        /\ KEY_ENV_VAR \in DOMAIN e => e[KEY_ENV_VAR] \in KeyValues
        /\ URL_ENV_VAR \in DOMAIN e => e[URL_ENV_VAR] \in UrlValues }

\* Arguments (config, http_client) of the default constructor.
DirectArgs ==
    { <<Config(KeyGood, UrlHttp), "supplied">>,
      <<Config(KeyGood, UrlHttp), "default">>,
      <<Config(KeyGood, UrlFtp), "supplied">>,
      <<Config(<<>>, <<>>), "default">> }

\* Arguments (config, http_client) of the default constructor of SyncClient.
SyncDirectArgs == { <<Config(KeyGood, UrlHttp), "supplied">> }

\* Optional keyword arguments of comment_check / submit_ham / submit_spam:
\* dicts over a few recognised and a few unrecognised names.
KwargNames == {"comment_content", "bad_argument", "api_key"}
KwargDicts ==
    UNION { [S -> {"x"}] :
              S \in {T \in SUBSET KwargNames : Cardinality(T) <= MaxKwargs} }

UserIps == {"127.0.0.1"}

\* Arguments of key_sites: the dict of the parameters passed with a value
\* other than None (a parameter left out has its default, None).
KeySitesArgs ==
    { EmptyDict,
      "result_format" :> "csv",
      "result_format" :> "json" @@ "month" :> "2024-01",
      "url_filter" :> "a" @@ "order" :> "total" @@ "limit" :> "10" @@ "offset" :> "0" }

\* Values of the method argument of _request.
RequestMethods ==
    { "GET", "POST", "post", "put", "CONNECT", "DELETE", "HEAD", "OPTIONS",
      "PATCH", "PUT", "TRACE" }

\* (key, url) pairs passed to verify_key by a caller.
VerifyArgs == { Config(KeyGood, UrlHttp), Config(KeyOther, UrlFtp) }

\* ---------------------------------------------------------------------------
\* What the HTTP client does with one request: raise, or return a response.
\* ---------------------------------------------------------------------------

Bodies ==
    { "true", "false", "valid", "invalid", SUBMISSION_RESPONSE,
      "Invalid", " invalid ", "invalid key", "oops", "{\"limit\": 1}",
      "site,count" }

HeaderDicts ==
    { EmptyDict,
      "X-akismet-pro-tip" :> "discard",
      "X-akismet-pro-tip" :> "disregard",
      "X-akismet-debug-help" :> "hint" }

\* Status codes: one success status and one error status.
Statuses == {200, 500}

\* Variant: CancelledError derives from Exception, as it did before
\* Python 3.8.
Bases_cancelled_is_exception ==
    [ TimeoutException |-> {"TimeoutException", "httpx.RequestError", "Exception"},
      ConnectError |-> {"ConnectError", "httpx.RequestError", "Exception"},
      TypeError |-> {"TypeError", "Exception"},
      HTTPStatusError |-> {"HTTPStatusError", "Exception"},
      CancelledError |-> {"CancelledError", "Exception"} ]

\* Exception classes the HTTP client's get()/post() may raise, with the
\* classes each is an instance of.
Bases ==
    [ TimeoutException |-> {"TimeoutException", "httpx.RequestError", "Exception"},
      ConnectError |-> {"ConnectError", "httpx.RequestError", "Exception"},
      TypeError |-> {"TypeError", "Exception"},
      HTTPStatusError |-> {"HTTPStatusError", "Exception"},
      CancelledError |-> {"CancelledError"} ]
IsInstance(exc, cls) == cls \in Bases[exc]

TransportExceptions == {"TimeoutException", "ConnectError", "TypeError"}

Response(status, text, headers) ==
    [exc |-> "none", status |-> status, text |-> text, headers |-> headers]
Raises(exc) ==
    [exc |-> exc, status |-> 0, text |-> "", headers |-> EmptyDict]

Answers ==
    { Raises(x) : x \in TransportExceptions }
    \cup { Response(200, t, EmptyDict) : t \in Bodies }
    \cup { Response(200, t, h) : t \in {"true", "false", "oops"},
                                 h \in HeaderDicts }
    \cup { Response(500, t, EmptyDict) : t \in {"invalid", "valid"} }

\* No answer yet (or no request made).
NoAnswer == Raises("unanswered")

\* response.raise_for_status() raises HTTPStatusError
IsErrorStatus(status) == status >= 400 /\ status <= 599

\* response.json(): the bodies that parse as JSON.
JsonBodies == {"true", "false", "{\"limit\": 1}"}

\* ---------------------------------------------------------------------------
\* How a call ends: a returned value or a raised exception.
\* ---------------------------------------------------------------------------

\* ret is a tagged value: <<"bool", "True">>, <<"CheckResponse", "SPAM">>,
\* <<"json", body>>, <<"text", body>>, <<"instance">>, <<"response">>.
Returned(v) ==
    [raised |-> "none", cause |-> "none", status |-> 0, detail |-> <<>>, ret |-> v]
\* raise type(detail) from cause
Raised(type, cause, status, detail) ==
    [raised |-> type, cause |-> cause, status |-> status, detail |-> detail,
     ret |-> <<>>]
NoOutcome == Raised("pending", "none", 0, <<>>)

PyTrue == <<"bool", "True">>
PyFalse == <<"bool", "False">>

\* The exception taxonomy of _exceptions.py: each class with its base classes.
Taxonomy ==
    [ AkismetError |-> {"AkismetError"},
      UnknownArgumentError |-> {"UnknownArgumentError", "TypeError", "AkismetError"},
      RequestError |-> {"RequestError", "AkismetError"},
      ProtocolError |-> {"ProtocolError", "AkismetError"},
      ConfigurationError |-> {"ConfigurationError", "AkismetError"},
      APIKeyError |-> {"APIKeyError", "ConfigurationError", "AkismetError"} ]

\* _common._protocol_error(operation, response)
protocol_error(operation, response) ==
    Raised("ProtocolError", "none", 0,
           <<operation, response.text,
             HeaderGet(response.headers, "X-akismet-debug-help", "None")>>)

\* ---------------------------------------------------------------------------
\* _common._try_discover_config()
\* ---------------------------------------------------------------------------

\* Variant: only unset variables count as missing, empty ones do not.
config_missing_none_only(key, url) == key = None \/ url = None

\* Variant: only the URL is required.
config_missing_url_only(key, url) == ~Truthy(url)

\* not all([key, url])
config_missing(key, url) == ~(Truthy(key) /\ Truthy(url))

\* The result of _try_discover_config() in environment e: the Config, or the
\* ConfigurationError it raises.
try_discover_config(e) ==
    LET key == Getenv(e, KEY_ENV_VAR, None)
        url == Getenv(e, URL_ENV_VAR, None)
    IN  IF config_missing(key, url)
        THEN [out |-> Raised("ConfigurationError", "none", 0, <<"missing">>),
              config |-> Config(key, url)]
        ELSE IF ~HasSchemePrefix(url)
        THEN [out |-> Raised("ConfigurationError", "none", 0, <<"url">>),
              config |-> Config(key, url)]
        ELSE [out |-> Returned(<<"Config">>), config |-> Config(key, url)]

\* ---------------------------------------------------------------------------
\* AsyncClient: instances.
\* ---------------------------------------------------------------------------

\* An instance: its class, self._config and self._http_client (the client the
\* caller supplied, or the default one built by the constructor). The field
\* via records which constructor is building it.
Instance(cls, config, http_client, via) ==
    [cls |-> cls, config |-> config, http_client |-> http_client, via |-> via]
NoInstance == Instance("none", Config(None, None), "none", "none")

HttpClients == {"supplied", "default"}

\* ---------------------------------------------------------------------------
\* AsyncClient._request, up to and after the awaited HTTP call.
\* ---------------------------------------------------------------------------

\* method.upper()
Upper(method) ==
    CASE method = "get" -> "GET"
      [] method = "post" -> "POST"
      [] method = "put" -> "PUT"
      [] OTHER -> method

\* The request handed to the HTTP client: handler(url, data=...) for POST,
\* handler(url, params=...) for GET.
Request(method, version, endpoint, data) ==
    [method |-> method, version |-> version, endpoint |-> endpoint,
     kwarg |-> IF method = "POST" THEN "data" ELSE "params", data |-> data]

\* Variant: the handler invoked a second time with the same request.
handler_calls_retry(req) == <<req, req>>

\* The invocations of the HTTP client's handler made for one request.
handler_calls(req) == <<req>>

\* Variant: without the check of the method.
request_send_any_method(method, version, endpoint, data) ==
    [out |-> NoOutcome,
     requests |-> handler_calls(Request(Upper(method), version, endpoint, data))]

\* _request before the await: the method check, then the handler invocation.
\* out is NoOutcome while the call is suspended on the handler.
request_send(method, version, endpoint, data) ==
    LET m == Upper(method)
    IN  IF m \notin {"GET", "POST"}
        THEN [out |-> Raised("AkismetError", "none", 0, <<m>>), requests |-> <<>>]
        ELSE [out |-> NoOutcome,
              requests |-> handler_calls(Request(m, version, endpoint, data))]

\* Variant: without the final "except Exception" clause.
request_error_httpx_only(exc, status) ==
    IF IsInstance(exc, "HTTPStatusError")
    THEN Raised("RequestError", exc, status, <<"status">>)
    ELSE IF IsInstance(exc, "TimeoutException")
    THEN Raised("RequestError", exc, 0, <<"timeout">>)
    ELSE IF IsInstance(exc, "httpx.RequestError")
    THEN Raised("RequestError", exc, 0, <<"error">>)
    ELSE Raised(exc, "none", 0, <<>>)

\* The except clauses of _request: the RequestError raised for exception exc
\* of the handler or of raise_for_status(), or exc itself when no clause
\* matches it.
request_error(exc, status) ==
    IF IsInstance(exc, "HTTPStatusError")
    THEN Raised("RequestError", exc, status, <<"status">>)
    ELSE IF IsInstance(exc, "TimeoutException")
    THEN Raised("RequestError", exc, 0, <<"timeout">>)
    ELSE IF IsInstance(exc, "httpx.RequestError")
    THEN Raised("RequestError", exc, 0, <<"error">>)
    ELSE IF IsInstance(exc, "Exception")
    THEN Raised("RequestError", exc, 0, <<"error">>)
    ELSE Raised(exc, "none", 0, <<>>)

\* Variant: the invalid-key check made for the POST endpoints only.
invalid_key_response_post_only(endpoint, text) ==
    endpoint \in {COMMENT_CHECK, SUBMIT_HAM, SUBMIT_SPAM} /\ text = "invalid"

\* Variant: the invalid-key check made for verify-key as well.
invalid_key_response_any_endpoint(endpoint, text) == text = "invalid"

\* Variant: the body compared without regard to case or surrounding text.
invalid_key_response_lenient(endpoint, text) ==
    /\ endpoint # VERIFY_KEY
    /\ text \in {"invalid", "Invalid", " invalid ", "invalid key"}

\* endpoint != _common._VERIFY_KEY and response.text == "invalid"
invalid_key_response(endpoint, text) == endpoint # VERIFY_KEY /\ text = "invalid"

\* Variant: the invalid-key check made before raise_for_status().
request_end_invalid_key_first(endpoint, ans) ==
    IF ans.exc # "none"
    THEN request_error(ans.exc, 0)
    ELSE IF invalid_key_response(endpoint, ans.text)
    THEN Raised("APIKeyError", "none", 0, <<>>)
    ELSE IF IsErrorStatus(ans.status)
    THEN request_error("HTTPStatusError", ans.status)
    ELSE Returned(<<"response">>)

\* _request after the await, for the handler's answer ans: the exception
\* raised, or Returned(<<"response">>) when the response is handed back.
request_end(endpoint, ans) ==
    IF ans.exc # "none"
    THEN request_error(ans.exc, 0)
    ELSE IF IsErrorStatus(ans.status)
    THEN request_error("HTTPStatusError", ans.status)
    ELSE IF invalid_key_response(endpoint, ans.text)
    THEN Raised("APIKeyError", "none", 0, <<>>)
    ELSE Returned(<<"response">>)

\* ---------------------------------------------------------------------------
\* AsyncClient._post_request
\* ---------------------------------------------------------------------------

\* Variant: arguments rejected only when none of them is recognised.
unknown_args_all(kwargs) ==
    IF \A k \in DOMAIN kwargs : k \notin OPTIONAL_KEYS THEN DOMAIN kwargs ELSE {}

\* [k for k in kwargs if k not in _common._OPTIONAL_KEYS]
unknown_args(kwargs) == {k \in DOMAIN kwargs : k \notin OPTIONAL_KEYS}

\* Variant: the caller's IP address left out of the data.
post_data_no_user_ip(self, user_ip, kwargs) ==
    kwargs @@ ("api_key" :> self.config.key @@ "blog" :> self.config.url)

\* {"api_key": ..., "blog": ..., "user_ip": ..., **kwargs}
post_data(self, user_ip, kwargs) ==
    kwargs @@ ("api_key" :> self.config.key @@ "blog" :> self.config.url
               @@ "user_ip" :> user_ip)

post_request_send(self, version, endpoint, user_ip, kwargs) ==
    IF unknown_args(kwargs) # {}
    THEN [out |-> Raised("UnknownArgumentError", "none", 0, <<endpoint>>),
          requests |-> <<>>]
    ELSE request_send("POST", version, endpoint, post_data(self, user_ip, kwargs))

\* ---------------------------------------------------------------------------
\* AsyncClient: interpretation of the response, per operation.
\* ---------------------------------------------------------------------------

\* Variant: any X-akismet-pro-tip header taken as the discard signal.
comment_check_result_any_pro_tip(response) ==
    IF response.text = "true"
    THEN IF "X-akismet-pro-tip" \in DOMAIN response.headers
         THEN Returned(<<"CheckResponse", "DISCARD">>)
         ELSE Returned(<<"CheckResponse", "SPAM">>)
    ELSE IF response.text = "false"
    THEN Returned(<<"CheckResponse", "HAM">>)
    ELSE protocol_error(COMMENT_CHECK, response)

\* Variant: the discard header read before the body.
comment_check_result_header_first(response) ==
    IF HeaderGet(response.headers, "X-akismet-pro-tip", "") = "discard"
    THEN Returned(<<"CheckResponse", "DISCARD">>)
    ELSE IF response.text = "true"
    THEN Returned(<<"CheckResponse", "SPAM">>)
    ELSE IF response.text = "false"
    THEN Returned(<<"CheckResponse", "HAM">>)
    ELSE protocol_error(COMMENT_CHECK, response)

\* comment_check, lines after the await.
comment_check_result(response) ==
    IF response.text = "true"
    THEN IF HeaderGet(response.headers, "X-akismet-pro-tip", "") = "discard"
         THEN Returned(<<"CheckResponse", "DISCARD">>)
         ELSE Returned(<<"CheckResponse", "SPAM">>)
    ELSE IF response.text = "false"
    THEN Returned(<<"CheckResponse", "HAM">>)
    ELSE protocol_error(COMMENT_CHECK, response)

\* Variant: the body "true" also taken as an acknowledgement.
submit_result_lenient(endpoint, response) ==
    IF response.text \in {SUBMISSION_RESPONSE, "true"}
    THEN Returned(PyTrue)
    ELSE protocol_error(endpoint, response)

\* _submit, lines after the await.
submit_result(endpoint, response) ==
    IF response.text = SUBMISSION_RESPONSE
    THEN Returned(PyTrue)
    ELSE protocol_error(endpoint, response)

\* verify_key, lines after the await.
verify_key_result(response) ==
    IF response.text = "valid"
    THEN Returned(PyTrue)
    ELSE IF response.text = "invalid"
    THEN Returned(PyFalse)
    ELSE protocol_error(VERIFY_KEY, response)

\* response.json()
response_json(response) ==
    IF response.text \in JsonBodies
    THEN Returned(<<"json", response.text>>)
    ELSE Raised("JSONDecodeError", "none", 0, <<>>)

\* key_sites: the query parameter sent for each Python parameter.
KeySitesParameter ==
    [month |-> "month", filter |-> "url_filter", format |-> "result_format",
     order |-> "order", limit |-> "limit", offset |-> "offset"]

\* Variant: result_format "json", the default of the service, always sent.
key_sites_params_default_format(args) ==
    [q \in {n \in DOMAIN KeySitesParameter : KeySitesParameter[n] \in DOMAIN args}
        |-> args[KeySitesParameter[q]]] @@ "format" :> "json"

\* key_sites: the params dict built from the arguments that are not None.
key_sites_params(args) ==
    [q \in {n \in DOMAIN KeySitesParameter : KeySitesParameter[n] \in DOMAIN args}
        |-> args[KeySitesParameter[q]]]

\* Variant: the body is parsed as JSON whatever format was asked for.
key_sites_result_always_json(args, response) == response_json(response)

\* key_sites, lines after the await.
key_sites_result(args, response) ==
    IF "result_format" \in DOMAIN args /\ args["result_format"] = "csv"
    THEN Returned(<<"text", response.text>>)
    ELSE response_json(response)

\* usage_limit: the params dict.
usage_limit_params(self) == "api_key" :> self.config.key

\* Variant: the value verify_key returned is not examined.
validated_client_result_unchecked(verified) ==
    IF verified.raised # "none"
    THEN verified
    ELSE Returned(<<"instance">>)

\* Variant: every failure of verify_key reported as an invalid key.
validated_client_result_any_failure_is_key(verified) ==
    IF verified = Returned(PyTrue)
    THEN Returned(<<"instance">>)
    ELSE Raised("APIKeyError", "none", 0, <<>>)

\* validated_client, lines after the awaited verify_key: verified is the
\* outcome of instance.verify_key(config.key, config.url).
validated_client_result(verified) ==
    IF verified.raised # "none"
    THEN verified
    ELSE IF verified.ret # PyTrue
    THEN Raised("APIKeyError", "none", 0, <<>>)
    ELSE Returned(<<"instance">>)

\* The endpoint each operation sends its request to.
EndpointOf ==
    [ verify_key |-> VERIFY_KEY, validated_client |-> VERIFY_KEY,
      comment_check |-> COMMENT_CHECK, submit_ham |-> SUBMIT_HAM,
      submit_spam |-> SUBMIT_SPAM, key_sites |-> KEY_SITES,
      usage_limit |-> USAGE_LIMIT ]

\* The rest of a coroutine after "response = await self._request(...)": the
\* exception _request raised, else the operation's reading of the response.
AfterRequest(endpoint, ans, result) ==
    LET r == request_end(endpoint, ans)
    IN  IF r.raised # "none" THEN r ELSE result

verify_key_end(ans) == AfterRequest(VERIFY_KEY, ans, verify_key_result(ans))

\* The coroutine of operation op resumed with the handler's answer ans.
resume(op, args, ans) ==
    CASE op = "verify_key" -> verify_key_end(ans)
      [] op = "validated_client" -> validated_client_result(verify_key_end(ans))
      [] op = "comment_check" ->
            AfterRequest(COMMENT_CHECK, ans, comment_check_result(ans))
      [] op = "submit_ham" ->
            AfterRequest(SUBMIT_HAM, ans, submit_result(SUBMIT_HAM, ans))
      [] op = "submit_spam" ->
            AfterRequest(SUBMIT_SPAM, ans, submit_result(SUBMIT_SPAM, ans))
      [] op = "key_sites" ->
            AfterRequest(KEY_SITES, ans, key_sites_result(args, ans))
      [] op = "usage_limit" ->
            AfterRequest(USAGE_LIMIT, ans, response_json(ans))
      [] op = "_request" -> request_end(args.endpoint, ans)

\* ---------------------------------------------------------------------------
\* Legacy client: Akismet.__init__ and the classmethod Akismet.verify_key.
\* ---------------------------------------------------------------------------

\* Akismet.verify_key(key, blog_url, http_client) when the HTTP client
\* answers ans; the request is posted only when the URL check passes, the
\* HTTP client's exceptions are not caught and the status is not examined.
legacy_verify_key(key, blog_url, ans) ==
    IF ~HasSchemePrefix(blog_url)
    THEN [out |-> Raised("ConfigurationError", "none", 0, <<"url">>),
          requests |-> <<>>]
    ELSE [out |-> IF ans.exc # "none"
                  THEN Raised(ans.exc, "none", 0, <<>>)
                  ELSE IF ans.text = "valid" THEN Returned(PyTrue)
                  ELSE IF ans.text = "invalid" THEN Returned(PyFalse)
                  ELSE protocol_error("verify_key", ans),
          requests |-> handler_calls(
              Request("POST", API_V11, VERIFY_KEY,
                      "key" :> key @@ "blog" :> blog_url))]

\* Akismet.__init__(key, blog_url, http_client)
legacy_init(e, key, blog_url, ans) ==
    LET maybe_key == IF key # None THEN key ELSE Getenv(e, KEY_ENV_VAR, <<>>)
        maybe_url == IF blog_url # None THEN blog_url
                     ELSE Getenv(e, URL_ENV_VAR, <<>>)
        v == legacy_verify_key(maybe_key, maybe_url, ans)
    IN  IF maybe_key = <<>> \/ maybe_url = <<>>
        THEN [out |-> Raised("ConfigurationError", "none", 0, <<"missing">>),
              requests |-> <<>>, config |-> Config(maybe_key, maybe_url)]
        ELSE [out |-> IF v.out.raised # "none" THEN v.out
                      ELSE IF v.out.ret # PyTrue
                      THEN Raised("APIKeyError", "none", 0, <<>>)
                      ELSE Returned(<<"instance">>),
              requests |-> v.requests, config |-> Config(maybe_key, maybe_url)]

\* ---------------------------------------------------------------------------
\* AsyncClient: construction, and an operation up to its await.
\* ---------------------------------------------------------------------------

\* Variant: __init__ checks the Config the way _try_discover_config does.
init_outcome_validating(config, http_client) ==
    IF config_missing(config.key, config.url)
    THEN Raised("ConfigurationError", "none", 0, <<"missing">>)
    ELSE IF ~HasSchemePrefix(config.url)
    THEN Raised("ConfigurationError", "none", 0, <<"url">>)
    ELSE Returned(<<"instance">>)

\* AsyncClient.__init__(config, http_client): two attribute assignments; the
\* Config is not examined and the HTTP client is not used.
init_outcome(config, http_client) == Returned(<<"instance">>)

\* The HTTP client of an instance the caller has let go of: AsyncClient has
\* no close(), no __aexit__ and no __del__, so the client is left as it is.
http_client_after_release(self) == "open"

\* Variant: an operation closes the HTTP client of the instance when it is
\* called.
self_after_closes_http_client(self, op, args) ==
    [self EXCEPT !.http_client = "closed"]

\* Variant: verify_key keeps the key and URL it was given as self._config.
self_after_verify_key_stores(self, op, args) ==
    IF op = "verify_key" THEN [self EXCEPT !.config = args] ELSE self

\* The instance once operation op(args) has run on it: no public operation
\* assigns self._config or self._http_client.
self_after(self, op, args) == self

\* Variant: verify_key sends the key and URL of self._config.
verify_key_data_from_config(self, key, url) ==
    "key" :> self.config.key @@ "blog" :> self.config.url

\* verify_key: data={"key": key, "blog": url}
verify_key_data(self, key, url) == "key" :> key @@ "blog" :> url

\* Operation op(args) on self, up to the await in _request: the request
\* handed to the HTTP client, or the exception raised before any request.
begin(self, op, args) ==
    CASE op = "verify_key" ->
            request_send("POST", API_V11, VERIFY_KEY,
                         verify_key_data(self, args.key, args.url))
      [] op = "comment_check" ->
            post_request_send(self, API_V11, COMMENT_CHECK,
                              args.user_ip, args.kwargs)
      [] op = "submit_ham" ->
            post_request_send(self, API_V11, SUBMIT_HAM,
                              args.user_ip, args.kwargs)
      [] op = "submit_spam" ->
            post_request_send(self, API_V11, SUBMIT_SPAM,
                              args.user_ip, args.kwargs)
      [] op = "key_sites" ->
            request_send("GET", API_V12, KEY_SITES, key_sites_params(args))
      [] op = "usage_limit" ->
            request_send("GET", API_V12, USAGE_LIMIT, usage_limit_params(self))
      [] op = "_request" ->
            request_send(args.method, args.version, args.endpoint, args.data)

\* ---------------------------------------------------------------------------
\* SyncClient, the blocking client (module akismet._sync_client), after the
\* specification of the protocol adapter, the transport invoker and the
\* client facade: one blocking HTTP call per operation.
\* ---------------------------------------------------------------------------

\* The operations of SyncClient, named after those of AsyncClient.
SyncOp ==
    [ verify_key |-> "SyncClient.verify_key",
      comment_check |-> "SyncClient.comment_check",
      submit_ham |-> "SyncClient.submit_ham",
      submit_spam |-> "SyncClient.submit_spam",
      key_sites |-> "SyncClient.key_sites",
      usage_limit |-> "SyncClient.usage_limit" ]

\* The request of an operation: a POST carries the API key, the site URL and
\* the caller's IP address merged with the optional arguments; a GET carries
\* the API key and the optional query parameters that were supplied.
sync_request(self, op, args) ==
    CASE op = "verify_key" ->
            Request("POST", API_V11, VERIFY_KEY,
                    "key" :> args.key @@ "blog" :> args.url)
      [] op \in {"comment_check", "submit_ham", "submit_spam"} ->
            Request("POST", API_V11, EndpointOf[op],
                    args.kwargs @@ ("api_key" :> self.config.key
                                    @@ "blog" :> self.config.url
                                    @@ "user_ip" :> args.user_ip))
      [] op = "key_sites" ->
            Request("GET", API_V12, KEY_SITES,
                    key_sites_params(args) @@ "api_key" :> self.config.key)
      [] op = "usage_limit" ->
            Request("GET", API_V12, USAGE_LIMIT, "api_key" :> self.config.key)

\* The transport invoker's reading of the HTTP client's answer: RequestError
\* for a timeout, for any other exception (chained as the cause) and for a
\* status that is neither 2xx nor 3xx (carrying the status); else nothing.
sync_transport(ans) ==
    IF ans.exc = "TimeoutException"
    THEN Raised("RequestError", "none", 0, <<"timeout">>)
    ELSE IF ans.exc # "none"
    THEN Raised("RequestError", ans.exc, 0, <<"error">>)
    ELSE IF ans.status \notin 200..399
    THEN Raised("RequestError", "none", ans.status, <<"status">>)
    ELSE NoOutcome

\* The protocol adapter's reading of a transported response.
sync_result(op, args, response) ==
    LET unmatched ==
            Raised("ProtocolError", "none", 0,
                   <<EndpointOf[op], response.text,
                     HeaderGet(response.headers, "X-akismet-debug-help", "None")>>)
    IN  IF op # "verify_key" /\ response.text = "invalid"
        THEN Raised("APIKeyError", "none", 0, <<>>)
        ELSE CASE op = "verify_key" ->
                    IF response.text = "valid" THEN Returned(PyTrue)
                    ELSE IF response.text = "invalid" THEN Returned(PyFalse)
                    ELSE unmatched
              [] op = "comment_check" ->
                    IF response.text = "true"
                    THEN IF HeaderGet(response.headers, "X-akismet-pro-tip",
                                      "None") = "discard"
                         THEN Returned(<<"CheckResponse", "DISCARD">>)
                         ELSE Returned(<<"CheckResponse", "SPAM">>)
                    ELSE IF response.text = "false"
                    THEN Returned(<<"CheckResponse", "HAM">>)
                    ELSE unmatched
              [] op \in {"submit_ham", "submit_spam"} ->
                    IF response.text = SUBMISSION_RESPONSE
                    THEN Returned(PyTrue)
                    ELSE unmatched
              [] op = "key_sites" /\ "result_format" \in DOMAIN args
                    /\ args["result_format"] = "csv" ->
                    Returned(<<"text", response.text>>)
              [] OTHER ->
                    IF response.text \in JsonBodies
                    THEN Returned(<<"json", response.text>>)
                    ELSE unmatched

\* Operation op(args) on self when the HTTP client answers ans.
sync_call(self, op, args, ans) ==
    IF /\ op \in {"comment_check", "submit_ham", "submit_spam"}
       /\ \E k \in DOMAIN args.kwargs : k \notin OPTIONAL_KEYS
    THEN [out |-> Raised("UnknownArgumentError", "none", 0, <<EndpointOf[op]>>),
          requests |-> <<>>]
    ELSE [out |-> IF sync_transport(ans) # NoOutcome
                  THEN sync_transport(ans)
                  ELSE sync_result(op, args, ans),
          requests |-> <<sync_request(self, op, args)>>]

\* ---------------------------------------------------------------------------
\* State.
\* ---------------------------------------------------------------------------

VARIABLES
    env,        \* os.environ: the variables that are set, with their values
    instances,  \* the client instances handed to the caller
    call,       \* the caller's current (or last finished) invocation
    tasks       \* the invocations of the asyncio tasks run concurrently

vars == <<env, instances, call, tasks>>

\* An invocation: the operation, the instance it runs on, its arguments, the
\* requests handed to the HTTP client so far, the HTTP client's answer and the
\* outcome. state is "pending" while the coroutine is suspended in the await
\* of _request and "done" once the invocation returned or raised.
Call(op, self, args, st, requests, ans, out) ==
    [op |-> op, self |-> self, args |-> args, state |-> st,
     requests |-> requests, answer |-> ans, out |-> out]

\* An invocation that ran up to its first await (or to its end, when it
\* raised before): sent is the result of request_send / post_request_send.
Started(op, self, args, sent) ==
    Call(op, self, args, IF sent.out = NoOutcome THEN "pending" ELSE "done",
         sent.requests, NoAnswer, sent.out)

\* No invocation in progress.
Idle == Call("none", NoInstance, EmptyDict, "idle", <<>>, NoAnswer, NoOutcome)

Init ==
    /\ env \in Environments
    /\ instances = {}
    /\ call = Idle
    /\ tasks = <<>>

AsyncInstances == {i \in instances : i.cls = "AsyncClient"}
SyncInstances == {i \in instances : i.cls = "SyncClient"}

\* A new invocation begins when the caller is not inside one.
CanCall == call.state = "idle"

\* The instances after operation op(args) ran on self.
InstancesAfter(self, op, args) ==
    (instances \ {self}) \cup {self_after(self, op, args)}

\* ---------------------------------------------------------------------------
\* Constructors.
\* ---------------------------------------------------------------------------

\* AsyncClient(config=config, http_client=http_client)
AsyncClient_init(config, http_client) ==
    /\ CanCall
    /\ Cardinality(instances) < MaxInstances
    /\ LET self == Instance("AsyncClient", config, http_client, "init")
           out == init_outcome(config, http_client)
       IN  /\ instances' = IF out.raised = "none"
                           THEN instances \cup {self} ELSE instances
           /\ call' = Call("AsyncClient", self, config, "done", <<>>, NoAnswer,
                           out)
    /\ UNCHANGED <<env, tasks>>

\* SyncClient(config=config, http_client=http_client)
SyncClient_init(config, http_client) ==
    /\ CanCall
    /\ Cardinality(instances) < MaxInstances
    /\ LET self == Instance("SyncClient", config, http_client, "init")
       IN  /\ instances' = instances \cup {self}
           /\ call' = Call("SyncClient", self, config, "done", <<>>, NoAnswer,
                           Returned(<<"instance">>))
    /\ UNCHANGED <<env, tasks>>

\* AsyncClient.validated_client(http_client), up to the await of verify_key.
validated_client(http_client) ==
    /\ CanCall
    /\ Cardinality(instances) < MaxInstances
    /\ LET d == try_discover_config(env)
           instance == Instance("AsyncClient", d.config, http_client,
                                "validated_client")
       IN  call' =
             IF d.out.raised # "none"
             THEN Call("validated_client", NoInstance,
                       [http_client |-> http_client], "done", <<>>,
                       NoAnswer, d.out)
             ELSE Started("validated_client", instance,
                          [http_client |-> http_client],
                          begin(instance, "verify_key", d.config))
    /\ UNCHANGED <<env, instances, tasks>>

\* Akismet(key=key, blog_url=blog_url, http_client=http_client): blocking, so
\* the HTTP client's answer ans arrives within the call.
Akismet_init(key, blog_url, http_client, ans) ==
    /\ CanCall
    /\ Cardinality(instances) < MaxInstances
    /\ LET r == legacy_init(env, key, blog_url, ans)
           self == Instance("Akismet", r.config, http_client, "Akismet")
       IN  /\ instances' = IF r.out.raised = "none"
                           THEN instances \cup {self} ELSE instances
           /\ call' = Call("Akismet", NoInstance,
                           [key |-> key, blog_url |-> blog_url,
                            http_client |-> http_client], "done",
                           r.requests,
                           IF r.requests = <<>> THEN NoAnswer ELSE ans, r.out)
    /\ UNCHANGED <<env, tasks>>

\* ---------------------------------------------------------------------------
\* Public operations of AsyncClient, up to the await in _request.
\* ---------------------------------------------------------------------------

\* Operation op(args) called on self by the caller.
Begin(self, op, args) ==
    /\ CanCall
    /\ call' = Started(op, self, args, begin(self, op, args))
    /\ instances' = InstancesAfter(self, op, args)
    /\ UNCHANGED <<env, tasks>>

verify_key(self, key, url) == Begin(self, "verify_key", Config(key, url))

comment_check(self, user_ip, kwargs) ==
    Begin(self, "comment_check", [user_ip |-> user_ip, kwargs |-> kwargs])

submit_ham(self, user_ip, kwargs) ==
    Begin(self, "submit_ham", [user_ip |-> user_ip, kwargs |-> kwargs])

submit_spam(self, user_ip, kwargs) ==
    Begin(self, "submit_spam", [user_ip |-> user_ip, kwargs |-> kwargs])

key_sites(self, args) == Begin(self, "key_sites", args)

usage_limit(self) == Begin(self, "usage_limit", EmptyDict)

\* self._request(method, version, endpoint, data), called directly.
AsyncClient_request(self, method, version, endpoint, data) ==
    Begin(self, "_request",
          [method |-> method, version |-> version, endpoint |-> endpoint,
           data |-> data])

\* ---------------------------------------------------------------------------
\* The awaited HTTP call ends.
\* ---------------------------------------------------------------------------

\* The HTTP client answers ans; the suspended coroutine runs to its end.
Resume(ans) ==
    /\ call.state = "pending"
    /\ LET out == resume(call.op, call.args, ans)
       IN  /\ call' = [call EXCEPT !.state = "done", !.answer = ans, !.out = out]
           /\ instances' = IF call.op = "validated_client" /\ out.raised = "none"
                           THEN instances \cup {call.self} ELSE instances
    /\ UNCHANGED <<env, tasks>>

\* The caller cancels the task while it is suspended: CancelledError is thrown
\* into the coroutine at the await and passes through the except clauses.
Cancel ==
    /\ call.state = "pending"
    /\ call' = [call EXCEPT !.state = "done",
                            !.out = request_error("CancelledError", 0)]
    /\ UNCHANGED <<env, instances, tasks>>

\* The invocation has returned or raised; control is back with the caller.
Finish ==
    /\ call.state = "done"
    /\ call' = Idle
    /\ UNCHANGED <<env, instances, tasks>>

\* The caller lets go of instance self (del, or the last reference going out
\* of scope).
Release(self) ==
    /\ CanCall
    /\ instances' = instances \ {self}
    /\ call' = Call("release", self, EmptyDict, "done", <<>>, NoAnswer,
                    Returned(<<"http_client", http_client_after_release(self)>>))
    /\ UNCHANGED <<env, tasks>>

\* ---------------------------------------------------------------------------
\* Public operations of SyncClient: the HTTP client's answer ans arrives
\* within the call.
\* ---------------------------------------------------------------------------

SyncClient_call(self, op, args, ans) ==
    /\ CanCall
    /\ LET r == sync_call(self, op, args, ans)
       IN  call' = Call(SyncOp[op], self, args, "done", r.requests,
                        IF r.requests = <<>> THEN NoAnswer ELSE ans, r.out)
    /\ UNCHANGED <<env, instances, tasks>>

\* The calls a caller makes: operation and arguments.
Calls ==
    { <<"verify_key", a>> : a \in VerifyArgs }
    \cup { <<op, [user_ip |-> ip, kwargs |-> kw]>> :
              op \in {"comment_check", "submit_ham", "submit_spam"},
              ip \in UserIps, kw \in KwargDicts }
    \cup { <<"key_sites", a>> : a \in KeySitesArgs }
    \cup { <<"usage_limit", EmptyDict>> }

Next ==
    \/ \E a \in DirectArgs : AsyncClient_init(a[1], a[2])
    \/ \E a \in SyncDirectArgs : SyncClient_init(a[1], a[2])
    \/ \E h \in HttpClients : validated_client(h)
    \/ \E k \in KeyValues \cup {None}, u \in {None, <<>>, UrlHttp, UrlFtp},
          h \in HttpClients, ans \in Answers : Akismet_init(k, u, h, ans)
    \/ \E self \in AsyncInstances, a \in VerifyArgs : verify_key(self, a.key, a.url)
    \/ \E self \in AsyncInstances, ip \in UserIps, kw \in KwargDicts :
          comment_check(self, ip, kw)
    \/ \E self \in AsyncInstances, ip \in UserIps, kw \in KwargDicts :
          submit_ham(self, ip, kw)
    \/ \E self \in AsyncInstances, ip \in UserIps, kw \in KwargDicts :
          submit_spam(self, ip, kw)
    \/ \E self \in AsyncInstances, a \in KeySitesArgs : key_sites(self, a)
    \/ \E self \in AsyncInstances : usage_limit(self)
    \/ \E self \in AsyncInstances, m \in RequestMethods :
          AsyncClient_request(self, m, API_V11, COMMENT_CHECK,
                              "api_key" :> self.config.key)
    \/ \E ans \in Answers : Resume(ans)
    \/ Cancel
    \/ Finish
    \/ \E self \in AsyncInstances : Release(self)
    \/ \E self \in SyncInstances, c \in Calls, ans \in Answers :
          SyncClient_call(self, c[1], c[2], ans)

Spec == Init /\ [][Next]_vars

\* ---------------------------------------------------------------------------
\* Concurrent callers: asyncio tasks that call the operations of shared
\* AsyncClient instances and are suspended at their HTTP calls together.
\* The remote service holds a fixed set of valid (key, url) pairs.
\* ---------------------------------------------------------------------------

Tasks == 1..MaxTasks

\* Two instances built by AsyncClient(config, http_client).
ConcInstances ==
    { Instance("AsyncClient", Config(KeyGood, UrlHttp), "supplied", "init"),
      Instance("AsyncClient", Config(KeyGood, UrlFtp), "supplied", "init") }

ConcCalls ==
    { <<"verify_key", a>> : a \in VerifyArgs }
    \cup { <<"comment_check", [user_ip |-> "127.0.0.1", kwargs |-> EmptyDict]>>,
           <<"usage_limit", EmptyDict>> }

\* The (key, url) pairs the remote service holds valid.
RemoteValid == { "key" :> KeyGood @@ "blog" :> UrlHttp }

\* What the HTTP client may answer to a request: a timeout, or the remote's
\* response; to verify-key that is "valid" or "invalid" by RemoteValid.
RemoteAnswers(request) ==
    { Raises("TimeoutException") }
    \cup IF request.endpoint = VERIFY_KEY
         THEN { Response(200, IF request.data \in RemoteValid
                              THEN "valid" ELSE "invalid", EmptyDict) }
         ELSE { Response(200, t, EmptyDict) :
                   t \in {"true", "invalid", "{\"limit\": 1}"} }

InitConc ==
    /\ env = EmptyDict
    /\ instances = ConcInstances
    /\ call = Idle
    /\ tasks = [t \in Tasks |-> Idle]

\* Task t calls op(args) on self and runs up to the await.
TaskCall(t, self, op, args) ==
    /\ tasks[t].state = "idle"
    /\ tasks' = [tasks EXCEPT ![t] = Started(op, self, args, begin(self, op, args))]
    /\ instances' = InstancesAfter(self, op, args)
    /\ UNCHANGED <<env, call>>

\* The HTTP call of task t is answered and its coroutine runs to its end.
TaskResume(t, ans) ==
    /\ tasks[t].state = "pending"
    /\ tasks' = [tasks EXCEPT ![t].state = "done", ![t].answer = ans,
                              ![t].out = resume(tasks[t].op, tasks[t].args, ans)]
    /\ UNCHANGED <<env, instances, call>>

\* Task t is cancelled while suspended.
TaskCancel(t) ==
    /\ tasks[t].state = "pending"
    /\ tasks' = [tasks EXCEPT ![t].state = "done",
                              ![t].out = request_error("CancelledError", 0)]
    /\ UNCHANGED <<env, instances, call>>

\* The invocation of task t is over; the task may call again.
TaskFinish(t) ==
    /\ tasks[t].state = "done"
    /\ tasks' = [tasks EXCEPT ![t] = Idle]
    /\ UNCHANGED <<env, instances, call>>

NextConc ==
    \/ \E t \in Tasks, self \in instances, c \in ConcCalls :
          TaskCall(t, self, c[1], c[2])
    \/ \E t \in Tasks :
          /\ tasks[t].state = "pending"
          /\ \E ans \in RemoteAnswers(tasks[t].requests[1]) : TaskResume(t, ans)
    \/ \E t \in Tasks : TaskCancel(t)
    \/ \E t \in Tasks : TaskFinish(t)

SpecConc == InitConc /\ [][NextConc]_vars

\* ---------------------------------------------------------------------------
\* Vocabulary of the properties.
\* ---------------------------------------------------------------------------

Done == call.state = "done"

PostOps == {"comment_check", "submit_ham", "submit_spam"}
NonVerifyOps == PostOps \cup {"key_sites", "usage_limit"}
PublicOps == NonVerifyOps \cup {"verify_key"}

\* The request of the invocation was answered with a response whose status
\* is not an error status.
Transported ==
    /\ Done
    /\ call.answer.exc = "none"
    /\ call.answer.status \in 200..299

\* The response carries the header X-akismet-pro-tip with the value "discard".
DiscardSignalled ==
    /\ "X-akismet-pro-tip" \in DOMAIN call.answer.headers
    /\ call.answer.headers["X-akismet-pro-tip"] = "discard"

\* The invocation returned value v / raised exception class c.
Returns(v) == call.out.raised = "none" /\ call.out.ret = v
RaisesError(c) == call.out.raised = c /\ call.out.ret = <<>>

\* ---------------------------------------------------------------------------
\* C1. On every operation other than verify_key, a successfully transported
\* response whose body is exactly "invalid" makes the call raise APIKeyError;
\* nothing is returned.
\* ---------------------------------------------------------------------------
C1_InvalidBodyRaisesAPIKeyError ==
    (call.op \in NonVerifyOps /\ Transported /\ call.answer.text = "invalid")
        => RaisesError("APIKeyError")

\* key_sites asked for CSV and was answered "invalid".
C1_Witness ==
    /\ call.op = "key_sites"
    /\ "result_format" \in DOMAIN call.args
    /\ call.args["result_format"] = "csv"
    /\ Transported
    /\ call.answer.text = "invalid"
    /\ RaisesError("APIKeyError")

\* ---------------------------------------------------------------------------
\* C2. comment_check reads its result off the response alone: body "true"
\* gives SPAM, or DISCARD when the header X-akismet-pro-tip is "discard";
\* body "false" gives HAM; the body "invalid" raises APIKeyError and every
\* other body raises ProtocolError.
\* ---------------------------------------------------------------------------
C2_CommentCheckClassification ==
    (call.op = "comment_check" /\ Transported) =>
        CASE call.answer.text = "true" /\ DiscardSignalled ->
                Returns(<<"CheckResponse", "DISCARD">>)
          [] call.answer.text = "true" /\ ~DiscardSignalled ->
                Returns(<<"CheckResponse", "SPAM">>)
          [] call.answer.text = "false" -> Returns(<<"CheckResponse", "HAM">>)
          [] call.answer.text = "invalid" -> RaisesError("APIKeyError")
          [] OTHER -> RaisesError("ProtocolError")

\* C2 as stated: every body other than "true" and "false" raises
\* ProtocolError.
C2_AnyOtherBodyProtocolError ==
    (call.op = "comment_check" /\ Transported) =>
        CASE call.answer.text = "true" /\ DiscardSignalled ->
                Returns(<<"CheckResponse", "DISCARD">>)
          [] call.answer.text = "true" /\ ~DiscardSignalled ->
                Returns(<<"CheckResponse", "SPAM">>)
          [] call.answer.text = "false" -> Returns(<<"CheckResponse", "HAM">>)
          [] OTHER -> RaisesError("ProtocolError")

\* comment_check answered "true" with a pro-tip header that is not "discard".
C2_Witness ==
    /\ call.op = "comment_check"
    /\ Transported
    /\ call.answer.text = "true"
    /\ "X-akismet-pro-tip" \in DOMAIN call.answer.headers
    /\ ~DiscardSignalled
    /\ Returns(<<"CheckResponse", "SPAM">>)

\* ---------------------------------------------------------------------------
\* C3. submit_spam and submit_ham return True exactly when the body is the
\* acknowledgement string; the body "invalid" raises APIKeyError and every
\* other body raises ProtocolError.
\* ---------------------------------------------------------------------------
C3_SubmitAcknowledgement ==
    (call.op \in {"submit_spam", "submit_ham"} /\ Transported) =>
        /\ Returns(PyTrue) <=>
              call.answer.text = "Thanks for making the web a better place."
        /\ call.answer.text = "invalid" => RaisesError("APIKeyError")
        /\ call.answer.text \notin
              {"Thanks for making the web a better place.", "invalid"}
              => RaisesError("ProtocolError")

\* C3 as stated: every body other than the acknowledgement raises
\* ProtocolError.
C3_AnyOtherBodyProtocolError ==
    (call.op \in {"submit_spam", "submit_ham"} /\ Transported) =>
        /\ Returns(PyTrue) <=>
              call.answer.text = "Thanks for making the web a better place."
        /\ call.answer.text # "Thanks for making the web a better place."
              => RaisesError("ProtocolError")

\* submit_spam answered "true": not the acknowledgement, so ProtocolError.
C3_Witness ==
    /\ call.op = "submit_spam"
    /\ Transported
    /\ call.answer.text = "true"
    /\ RaisesError("ProtocolError")

C5_VerifyKeyResult ==
    (call.op = "verify_key" /\ Transported) =>
        CASE call.answer.text = "valid" -> Returns(PyTrue)
          [] call.answer.text = "invalid" -> Returns(PyFalse)
          [] OTHER -> RaisesError("ProtocolError")

\* verify_key answered "invalid" returned False.
C5_Witness ==
    /\ call.op = "verify_key"
    /\ Transported
    /\ call.answer.text = "invalid"
    /\ Returns(PyFalse)

\* ---------------------------------------------------------------------------
\* C6. validated_client returns an instance only after exactly one verify-key
\* request, carrying the key and url of the instance's Config, was answered
\* "valid"; when verify_key returns False it raises APIKeyError and returns
\* no instance. No operation other than verify_key sends a verify-key
\* request.
\* ---------------------------------------------------------------------------
C6_ValidatedClientVerifiesOnce ==
    /\ (call.op = "validated_client" /\ Done /\ call.out.raised = "none") =>
          /\ call.out.ret = <<"instance">>
          /\ call.self \in instances
          /\ Len(call.requests) = 1
          /\ call.requests[1].method = "POST"
          /\ call.requests[1].endpoint = "verify-key"
          /\ call.requests[1].data =
                ("key" :> call.self.config.key @@ "blog" :> call.self.config.url)
          /\ Transported
          /\ call.answer.text = "valid"
    /\ (call.op = "validated_client" /\ Transported
            /\ call.answer.text = "invalid") => RaisesError("APIKeyError")
    /\ call.op \in NonVerifyOps =>
          \A i \in 1..Len(call.requests) : call.requests[i].endpoint # "verify-key"

\* validated_client returned an instance.
C6_Witness ==
    /\ call.op = "validated_client"
    /\ Done
    /\ call.out.ret = <<"instance">>
    /\ call.self \in instances
    /\ call.answer.text = "valid"

\* ---------------------------------------------------------------------------
\* C7. When the API key or the site URL is absent or empty after resolution,
\* the resolving constructors (validated_client, and the legacy Akismet())
\* raise ConfigurationError and make no request, also when an HTTP client is
\* supplied.
\* ---------------------------------------------------------------------------
AbsentOrEmpty(v) == v = None \/ Len(v) = 0

\* The value the legacy constructor resolves for an argument: the argument,
\* else the environment variable.
LegacyResolved(arg, name) ==
    IF arg # None THEN arg ELSE IF name \in DOMAIN env THEN env[name] ELSE None

C7_MissingConfigurationFails ==
    /\ (/\ call.op = "validated_client"
        /\ \/ AbsentOrEmpty(Getenv(env, KEY_ENV_VAR, None))
           \/ AbsentOrEmpty(Getenv(env, URL_ENV_VAR, None)))
          => Done /\ RaisesError("ConfigurationError") /\ call.requests = <<>>
    /\ (/\ call.op = "Akismet"
        /\ \/ AbsentOrEmpty(LegacyResolved(call.args.key, KEY_ENV_VAR))
           \/ AbsentOrEmpty(LegacyResolved(call.args.blog_url, URL_ENV_VAR)))
          => Done /\ RaisesError("ConfigurationError") /\ call.requests = <<>>

\* validated_client given an HTTP client, with the key set to the empty
\* string and a well-formed URL.
C7_Witness ==
    /\ call.op = "validated_client"
    /\ call.args.http_client = "supplied"
    /\ KEY_ENV_VAR \in DOMAIN env /\ env[KEY_ENV_VAR] = <<>>
    /\ URL_ENV_VAR \in DOMAIN env /\ env[URL_ENV_VAR] = UrlHttp
    /\ RaisesError("ConfigurationError")
    /\ call.requests = <<>>

\* ---------------------------------------------------------------------------
\* C8. When the resolved url does not begin with exactly "http://" or
\* "https://", the validating constructors (validated_client, and the legacy
\* Akismet()) raise ConfigurationError and make no request.
\* ---------------------------------------------------------------------------
Begins(url, prefix) ==
    Len(url) >= Len(prefix) /\ SubSeq(url, 1, Len(prefix)) = prefix

LacksScheme(url) ==
    ~( \/ Begins(url, <<"h", "t", "t", "p", ":", "/", "/">>)
       \/ Begins(url, <<"h", "t", "t", "p", "s", ":", "/", "/">>) )

C8_BadUrlFailsValidatingConstruction ==
    /\ (call.op = "validated_client"
            /\ LacksScheme(Getenv(env, URL_ENV_VAR, None)))
          => Done /\ RaisesError("ConfigurationError") /\ call.requests = <<>>
    /\ (call.op = "Akismet"
            /\ LacksScheme(LegacyResolved(call.args.blog_url, URL_ENV_VAR)))
          => Done /\ RaisesError("ConfigurationError") /\ call.requests = <<>>

\* C8 as stated: the same of every client construction, the default
\* constructor AsyncClient(config) included.
C8_BadUrlFailsEveryConstruction ==
    /\ C8_BadUrlFailsValidatingConstruction
    /\ (call.op = "AsyncClient" /\ LacksScheme(call.args.url))
          => Done /\ RaisesError("ConfigurationError") /\ call.requests = <<>>

\* validated_client with the key set and a URL whose scheme is upper-case.
C8_Witness ==
    /\ call.op = "validated_client"
    /\ KEY_ENV_VAR \in DOMAIN env /\ env[KEY_ENV_VAR] = KeyGood
    /\ URL_ENV_VAR \in DOMAIN env /\ env[URL_ENV_VAR] = UrlUpper
    /\ RaisesError("ConfigurationError")
    /\ call.requests = <<>>

\* ---------------------------------------------------------------------------
\* C9. In every public operation of AsyncClient a failure of the HTTP call
\* (an error status, a timeout, or any other exception of the HTTP client)
\* is raised as RequestError with the original exception as its cause; for
\* an error status the RequestError carries the status code.
\* ---------------------------------------------------------------------------
ErrorStatusAnswer == call.answer.exc = "none" /\ call.answer.status \in 400..599
TransportFailure == call.answer.exc \in TransportExceptions \/ ErrorStatusAnswer

C9_TransportFailureIsRequestError ==
    (call.op \in PublicOps /\ Done /\ TransportFailure) =>
        /\ RaisesError("RequestError")
        /\ call.out.cause =
              IF ErrorStatusAnswer THEN "HTTPStatusError" ELSE call.answer.exc
        /\ ErrorStatusAnswer => call.out.status = call.answer.status

\* usage_limit whose HTTP call raised TypeError.
C9_Witness ==
    /\ call.op = "usage_limit"
    /\ Done
    /\ call.answer.exc = "TypeError"
    /\ RaisesError("RequestError")
    /\ call.out.cause = "TypeError"

\* ---------------------------------------------------------------------------
\* C10. No retries: an invocation hands at most one request to the HTTP
\* client; exactly one once a public operation passed its client-side
\* argument check; validated_client exactly one, to verify-key, once the
\* configuration is resolved (none when resolution fails); in AsyncClient a
\* failed HTTP call is raised to the caller with no second request.
\* ---------------------------------------------------------------------------
C10_NoRetries ==
    /\ Len(call.requests) <= 1
    /\ (/\ call.op \in PublicOps
        /\ call.op \in PostOps =>
              \A k \in DOMAIN call.args.kwargs : k \in OPTIONAL_KEYS)
          => Len(call.requests) = 1
    /\ call.op = "validated_client" =>
          IF Done /\ RaisesError("ConfigurationError")
          THEN call.requests = <<>>
          ELSE Len(call.requests) = 1 /\ call.requests[1].endpoint = "verify-key"
    /\ (call.op \in PublicOps \cup {"validated_client"} /\ Done
            /\ TransportFailure) =>
          call.out.raised # "none" /\ call.out.ret = <<>> /\ Len(call.requests) = 1

\* comment_check whose single request timed out.
C10_Witness ==
    /\ call.op = "comment_check"
    /\ Done
    /\ call.answer.exc = "TimeoutException"
    /\ Len(call.requests) = 1
    /\ RaisesError("RequestError")

\* ---------------------------------------------------------------------------
\* C11. On every operation, key_sites and usage_limit included, a
\* successfully transported response that matches none of the operation's
\* recognised patterns (for the JSON operations: a body that is not
\* parseable JSON) raises ProtocolError carrying the operation name, the raw
\* body and the value of the header X-akismet-debug-help.
\* ---------------------------------------------------------------------------
WantsCsv ==
    /\ call.op = "key_sites"
    /\ "result_format" \in DOMAIN call.args
    /\ call.args["result_format"] = "csv"

\* The body is one the operation of the invocation recognises.
Recognised ==
    CASE call.op = "verify_key" -> call.answer.text \in {"valid", "invalid"}
      [] call.op = "comment_check" ->
            call.answer.text \in {"true", "false", "invalid"}
      [] call.op \in {"submit_ham", "submit_spam"} ->
            call.answer.text \in
                {"Thanks for making the web a better place.", "invalid"}
      [] call.op = "key_sites" /\ WantsCsv -> TRUE
      [] OTHER -> call.answer.text \in JsonBodies \cup {"invalid"}

C11_UnmatchedResponseIsProtocolError ==
    (call.op \in PublicOps /\ Transported /\ ~Recognised) =>
        /\ RaisesError("ProtocolError")
        /\ call.out.detail =
              <<EndpointOf[call.op], call.answer.text,
                HeaderGet(call.answer.headers, "X-akismet-debug-help", "None")>>

\* ---------------------------------------------------------------------------
\* C12. Every failed invocation of a constructor or of a public operation
\* raises an exception of the AkismetError taxonomy; a finished invocation
\* that raised nothing returned a value, never None in place of a failure.
\* (An invocation the caller cancelled is the subject of C15.)
\* ---------------------------------------------------------------------------

\* The caller cancelled the invocation while its request was unanswered.
Cancelled == Done /\ call.requests # <<>> /\ call.answer = NoAnswer

C12_FailureIsAkismetError ==
    (call.op \in PublicOps \cup {"validated_client", "AsyncClient"}
        /\ Done /\ ~Cancelled) =>
        IF call.out.raised = "none"
        THEN call.out.ret \notin {<<>>, None}
        ELSE /\ call.out.raised \in DOMAIN Taxonomy
             /\ "AkismetError" \in Taxonomy[call.out.raised]
             /\ call.out.ret = <<>>

\* ---------------------------------------------------------------------------
\* C13. key_sites called with result_format "csv" returns the text of a
\* transported response unchanged and parses no JSON (a body that is not
\* JSON is returned as it is); called with any other result_format, or
\* none, it returns the parsed JSON of the body.
\* ---------------------------------------------------------------------------
C13_KeySitesResultFormat ==
    (call.op = "key_sites" /\ Transported /\ call.answer.text # "invalid") =>
        IF WantsCsv
        THEN Returns(<<"text", call.answer.text>>)
        ELSE call.answer.text \in JsonBodies
                => Returns(<<"json", call.answer.text>>)

\* key_sites asked for CSV and answered a body that is not JSON.
C13_Witness ==
    /\ call.op = "key_sites"
    /\ WantsCsv
    /\ Transported
    /\ call.answer.text \notin JsonBodies
    /\ Returns(<<"text", call.answer.text>>)

\* ---------------------------------------------------------------------------
\* C15. Cancelling an operation of AsyncClient while it is suspended at its
\* HTTP call ends the invocation with asyncio.CancelledError, unchanged: it
\* is not wrapped in RequestError and has no cause, unlike a timeout of the
\* HTTP call, which is raised as RequestError. No further request is made.
\* ---------------------------------------------------------------------------
C15_CancellationPropagatesUnchanged ==
    /\ (call.op \in PublicOps \cup {"validated_client"} /\ Cancelled) =>
          /\ RaisesError("CancelledError")
          /\ call.out.cause = "none"
          /\ Len(call.requests) = 1
    /\ (call.op \in PublicOps \cup {"validated_client"} /\ Done
            /\ call.answer.exc = "TimeoutException") =>
          RaisesError("RequestError") /\ call.out.cause = "TimeoutException"

\* C15 as stated: the cancellation is raised as RequestError, as a timeout
\* is.
C15_CancellationIsRequestError ==
    (call.op \in PublicOps \cup {"validated_client"} /\ Cancelled) =>
        RaisesError("RequestError")

\* submit_spam cancelled while its request was unanswered.
C15_Witness ==
    /\ call.op = "submit_spam"
    /\ Cancelled
    /\ RaisesError("CancelledError")

\* ---------------------------------------------------------------------------
\* C14. SyncClient and AsyncClient are observationally equivalent: with the
\* same Config, operation, arguments and answer of the HTTP client, both
\* hand the same request to the HTTP client and both return the same value
\* or raise the same exception class.
\* ---------------------------------------------------------------------------

\* AsyncClient's operation op(args) on self answered ans, from call to end.
async_call(self, op, args, ans) ==
    LET b == begin(self, op, args)
    IN  [out |-> IF b.out # NoOutcome THEN b.out ELSE resume(op, args, ans),
         requests |-> b.requests]

\* Same requests, same returned value, same class of exception.
SameObservation(a, b) ==
    /\ a.requests = b.requests
    /\ a.out.raised = b.out.raised
    /\ a.out.ret = b.out.ret

C14_SyncAsyncEquivalent ==
    /\ (call.op \in PublicOps /\ Done /\ ~Cancelled) =>
          SameObservation(
              [out |-> call.out, requests |-> call.requests],
              sync_call(call.self, call.op, call.args, call.answer))
    /\ \A op \in PublicOps :
          (call.op = SyncOp[op] /\ Done) =>
              SameObservation(
                  [out |-> call.out, requests |-> call.requests],
                  async_call(call.self, op, call.args, call.answer))

\* The equivalence outside the two places where AsyncClient leaves the
\* specification: the JSON operations answered a body that is not JSON
\* (C11), and the request of key_sites, which carries no API key.
C14_EquivalentElsewhere ==
    (call.op \in PublicOps /\ Done /\ ~Cancelled) =>
        LET s == sync_call(call.self, call.op, call.args, call.answer)
        IN  /\ call.op # "key_sites" => call.requests = s.requests
            /\ ~(Transported /\ ~Recognised) =>
                  /\ call.out.raised = s.out.raised
                  /\ call.out.ret = s.out.ret

\* ---------------------------------------------------------------------------
\* C16. Calls on one instance do not interact: whatever other calls are
\* suspended, finished, failed or cancelled, a call runs on the instance as
\* it was constructed, and two calls of the same operation with the same
\* arguments on instances holding the same Config send the same request
\* and, given the same answer of the HTTP client, end the same way.
\* ---------------------------------------------------------------------------
Active(t) == tasks[t].state # "idle"
Ended(t) == tasks[t].state = "done"

SameCall(t, u) ==
    /\ Active(t) /\ Active(u)
    /\ tasks[t].op = tasks[u].op
    /\ tasks[t].args = tasks[u].args
    /\ tasks[t].self.config = tasks[u].self.config

C16_CallsDoNotInteract ==
    /\ instances = ConcInstances
    /\ \A t \in Tasks : Active(t) => tasks[t].self \in ConcInstances
    /\ \A t, u \in Tasks :
          SameCall(t, u) =>
              /\ tasks[t].requests = tasks[u].requests
              /\ (Ended(t) /\ Ended(u) /\ tasks[t].answer = tasks[u].answer)
                    => tasks[t].out = tasks[u].out

\* Two tasks called comment_check on the same instance and were suspended
\* together; one timed out, the other was answered "true".
C16_Witness ==
    /\ tasks[1].op = "comment_check" /\ tasks[2].op = "comment_check"
    /\ tasks[1].self = tasks[2].self
    /\ Ended(1) /\ Ended(2)
    /\ tasks[1].out.raised = "RequestError"
    /\ tasks[2].out.ret = <<"CheckResponse", "SPAM">>

\* ---------------------------------------------------------------------------
\* C17. No public operation of AsyncClient changes an instance: in every
\* step of verify_key, comment_check, submit_spam, submit_ham, key_sites or
\* usage_limit, whether it returns or raises, the Config and the HTTP client
\* of every instance stay as the constructor set them; verify_key(key, url)
\* with arguments other than the held Config does not replace it.
\* ---------------------------------------------------------------------------
C17_OperationsLeaveInstanceUnchanged ==
    [][call'.op \in PublicOps => instances' = instances]_vars

\* verify_key called with a key and URL other than the held Config has
\* returned, and the instance is as it was.
C17_Witness ==
    /\ call.op = "verify_key"
    /\ Done
    /\ call.args # call.self.config
    /\ Returns(PyFalse)
    /\ instances = {call.self}

\* ---------------------------------------------------------------------------
\* C18. AsyncClient(config, http_client) returns an instance holding the
\* Config as supplied, whatever it is, and makes no request. An operation
\* other than verify_key on such an instance sends its own single request,
\* never one to verify-key, and when that request is answered "invalid" it
\* raises APIKeyError.
\* ---------------------------------------------------------------------------
C18_DirectConstructorDoesNotValidate ==
    /\ call.op = "AsyncClient" =>
          /\ Done
          /\ Returns(<<"instance">>)
          /\ call.requests = <<>>
          /\ call.answer = NoAnswer
          /\ call.self.config = call.args
          /\ call.self \in instances
    /\ (call.op \in NonVerifyOps /\ call.self.via = "init") =>
          /\ Len(call.requests) <= 1
          /\ \A i \in 1..Len(call.requests) :
                call.requests[i].endpoint = EndpointOf[call.op]
          /\ (Transported /\ call.answer.text = "invalid")
                => RaisesError("APIKeyError")

\* An instance constructed directly with an empty key and URL; its
\* comment_check was answered "invalid".
C18_Witness ==
    /\ call.op = "comment_check"
    /\ call.self.via = "init"
    /\ call.self.config = Config(<<>>, <<>>)
    /\ call.self \in instances
    /\ Transported
    /\ call.answer.text = "invalid"
    /\ RaisesError("APIKeyError")

\* ---------------------------------------------------------------------------
\* C19. The Config of every instance returned by a validating constructor
\* (validated_client, the legacy Akismet()) has a non-empty key and a url
\* that begins with "http://" or "https://".
\* ---------------------------------------------------------------------------
ValidConfig(c) ==
    /\ c.key # None /\ Len(c.key) > 0
    /\ c.url # None /\ ~LacksScheme(c.url)

C19_ValidatedInstancesHoldValidConfig ==
    \A i \in instances :
        i.via \in {"validated_client", "Akismet"} => ValidConfig(i.config)

\* C19 as stated: the same of every instance, whichever constructor created
\* it.
C19_EveryInstanceHoldsValidConfig ==
    \A i \in instances : ValidConfig(i.config)

\* validated_client returned an instance for an https URL.
C19_Witness ==
    \E i \in instances :
        /\ i.via = "validated_client"
        /\ i.config = Config(KeyGood, UrlHttps)

\* ---------------------------------------------------------------------------
\* C20. verify_key is idempotent and deterministic: against a remote whose
\* set of valid (key, url) pairs does not change, any two answered calls of
\* verify_key with the same key and url, on whichever instance and after
\* whatever other calls, return the same boolean.
\* ---------------------------------------------------------------------------
AnsweredVerifyKey(t) ==
    /\ tasks[t].op = "verify_key"
    /\ Ended(t)
    /\ tasks[t].answer.exc = "none"

C20_VerifyKeyIdempotent ==
    \A t, u \in Tasks :
        (/\ AnsweredVerifyKey(t) /\ AnsweredVerifyKey(u)
         /\ tasks[t].args = tasks[u].args) =>
            /\ tasks[t].out.raised = "none"
            /\ tasks[t].out.ret \in {PyTrue, PyFalse}
            /\ tasks[t].out.ret = tasks[u].out.ret

\* Two calls of verify_key with the same key and url on instances holding
\* different Configs both returned True.
C20_Witness ==
    /\ AnsweredVerifyKey(1) /\ AnsweredVerifyKey(2)
    /\ tasks[1].args = tasks[2].args
    /\ tasks[1].self # tasks[2].self
    /\ tasks[1].out.ret = PyTrue
    /\ tasks[2].out.ret = PyTrue

\* ---------------------------------------------------------------------------
\* C21. The members of CheckResponse are HAM = 0, SPAM = 1 and DISCARD = 2,
\* and the value comment_check returns is non-zero exactly when the body of
\* the response is "true" (with or without the discard header) and zero
\* exactly when the body is "false".
\* ---------------------------------------------------------------------------

\* The integer value of the CheckResponse member the invocation returned.
ReturnedValue == CheckResponse[call.out.ret[2]]

C21_CheckResponseTruthiness ==
    /\ CheckResponse.HAM = 0
    /\ CheckResponse.SPAM = 1
    /\ CheckResponse.DISCARD = 2
    /\ (call.op = "comment_check" /\ Done /\ call.out.raised = "none") =>
          /\ call.out.ret[1] = "CheckResponse"
          /\ ReturnedValue # 0 <=> call.answer.text = "true"
          /\ ReturnedValue = 0 <=> call.answer.text = "false"

\* comment_check answered "true" with the discard header returned a member
\* whose value is not zero.
C21_Witness ==
    /\ call.op = "comment_check"
    /\ Transported
    /\ call.answer.text = "true"
    /\ DiscardSignalled
    /\ call.out.raised = "none"
    /\ ReturnedValue = 2

\* ---------------------------------------------------------------------------
\* C22. _request accepts the methods GET and POST only (compared after
\* upper-casing): called with any other method it raises AkismetError
\* itself, none of its subclasses, and the HTTP client is not invoked.
\* ---------------------------------------------------------------------------
C22_UnsupportedMethodRaisesAkismetError ==
    /\ (call.op = "_request"
            /\ call.args.method \notin {"GET", "POST", "get", "post"}) =>
          /\ Done
          /\ RaisesError("AkismetError")
          /\ call.requests = <<>>
          /\ call.answer = NoAnswer
    /\ (call.op = "_request"
            /\ call.args.method \in {"GET", "POST", "get", "post"}) =>
          /\ Len(call.requests) = 1
          /\ call.requests[1].method \in {"GET", "POST"}
          /\ call.out.raised # "AkismetError"

\* _request called with DELETE.
C22_Witness ==
    /\ call.op = "_request"
    /\ call.args.method = "DELETE"
    /\ RaisesError("AkismetError")
    /\ call.requests = <<>>

\* ---------------------------------------------------------------------------
\* C23. Every POST sent by comment_check, submit_spam and submit_ham carries
\* api_key equal to the key of the instance's Config, blog equal to its url
\* and user_ip equal to the caller's argument, together with exactly the
\* caller's optional arguments; an argument named like a required field is
\* not accepted, so none of the three can be overridden or removed.
\* ---------------------------------------------------------------------------
RequiredFields == {"api_key", "blog", "user_ip"}

C23_PostCarriesRequiredFields ==
    /\ OPTIONAL_KEYS \cap RequiredFields = {}
    /\ (call.op \in PostOps /\ call.requests # <<>>) =>
          LET data == call.requests[1].data
              kwargs == call.args.kwargs
          IN  /\ call.requests[1].method = "POST"
              /\ call.requests[1].kwarg = "data"
              /\ DOMAIN data = RequiredFields \cup DOMAIN kwargs
              /\ data["api_key"] = call.self.config.key
              /\ data["blog"] = call.self.config.url
              /\ data["user_ip"] = call.args.user_ip
              /\ \A k \in DOMAIN kwargs : data[k] = kwargs[k]
    /\ (call.op \in PostOps
            /\ DOMAIN call.args.kwargs \cap RequiredFields # {}) =>
          call.requests = <<>>

\* submit_spam sent its request with one optional argument.
C23_Witness ==
    /\ call.op = "submit_spam"
    /\ DOMAIN call.args.kwargs = {"comment_content"}
    /\ Len(call.requests) = 1
    /\ DOMAIN call.requests[1].data = RequiredFields \cup {"comment_content"}
    /\ call.requests[1].data["comment_content"] = "x"

\* ---------------------------------------------------------------------------
\* C24. The query of key_sites carries exactly the optional parameters the
\* caller supplied, each with the caller's value: an absent one is left
\* out and nothing is defaulted or added. The query of usage_limit, which
\* has no optional parameter, carries the API key of the instance's Config
\* and nothing else.
\* ---------------------------------------------------------------------------

\* The query parameter of each argument of key_sites.
QueryNameOf ==
    [month |-> "month", url_filter |-> "filter", result_format |-> "format",
     order |-> "order", limit |-> "limit", offset |-> "offset"]

\* The query holds the arguments the caller supplied, and only those.
OnlySuppliedParameters(query, args) ==
    /\ DOMAIN query = {QueryNameOf[a] : a \in DOMAIN args}
    /\ \A a \in DOMAIN args : query[QueryNameOf[a]] = args[a]

C24_GetCarriesSuppliedParameters ==
    /\ call.op = "key_sites" =>
          /\ Len(call.requests) = 1
          /\ call.requests[1].method = "GET"
          /\ call.requests[1].kwarg = "params"
          /\ OnlySuppliedParameters(call.requests[1].data, call.args)
    /\ call.op = "usage_limit" =>
          /\ Len(call.requests) = 1
          /\ call.requests[1].method = "GET"
          /\ call.requests[1].data = ("api_key" :> call.self.config.key)

\* C24 as stated: the query of both GET operations carries only what the
\* caller supplied.
C24_GetCarriesOnlySuppliedParameters ==
    /\ call.op = "key_sites" =>
          /\ Len(call.requests) = 1
          /\ OnlySuppliedParameters(call.requests[1].data, call.args)
    /\ call.op = "usage_limit" =>
          /\ Len(call.requests) = 1
          /\ OnlySuppliedParameters(call.requests[1].data, call.args)

\* key_sites called with url_filter, order, limit and offset, without month
\* and result_format.
C24_Witness ==
    /\ call.op = "key_sites"
    /\ DOMAIN call.args = {"url_filter", "order", "limit", "offset"}
    /\ Len(call.requests) = 1
    /\ DOMAIN call.requests[1].data = {"filter", "order", "limit", "offset"}
    /\ call.requests[1].data["filter"] = "a"

\* ---------------------------------------------------------------------------
\* C25. The requests of key_sites and of usage_limit both carry the API key
\* of the instance's Config.
\* ---------------------------------------------------------------------------
C25_GetCarriesApiKey ==
    (call.op \in {"key_sites", "usage_limit"} /\ call.requests # <<>>) =>
        /\ "api_key" \in DOMAIN call.requests[1].data
        /\ call.requests[1].data["api_key"] = call.self.config.key

\* ---------------------------------------------------------------------------
\* C26. When the caller lets go of an instance, the HTTP client the instance
\* built for itself is closed, and an HTTP client the caller supplied is
\* left open.
\* ---------------------------------------------------------------------------
C26_OwnedHttpClientClosedOnRelease ==
    call.op = "release" =>
        IF call.self.http_client = "default"
        THEN Returns(<<"http_client", "closed">>)
        ELSE Returns(<<"http_client", "open">>)

\* ---------------------------------------------------------------------------
\* C27. The header X-akismet-pro-tip changes the result of comment_check
\* only next to the body "true": with body "false" and the header "discard"
\* the result is HAM; with a body that is neither "true" nor "false" the
\* header does not keep the call from raising; with body "true" and a
\* header value other than "discard" the result is SPAM.
\* ---------------------------------------------------------------------------
ProTipPresent == "X-akismet-pro-tip" \in DOMAIN call.answer.headers

C27_DiscardHeaderOnlyWithSpamBody ==
    (call.op = "comment_check" /\ Transported /\ ProTipPresent) =>
        CASE call.answer.text = "false" -> Returns(<<"CheckResponse", "HAM">>)
          [] call.answer.text = "true" /\ ~DiscardSignalled ->
                Returns(<<"CheckResponse", "SPAM">>)
          [] call.answer.text = "true" /\ DiscardSignalled ->
                Returns(<<"CheckResponse", "DISCARD">>)
          [] OTHER -> call.out.raised \in {"ProtocolError", "APIKeyError"}
                        /\ call.out.ret = <<>>

\* comment_check answered "false" with the header "discard" returned HAM.
C27_Witness ==
    /\ call.op = "comment_check"
    /\ Transported
    /\ call.answer.text = "false"
    /\ DiscardSignalled
    /\ Returns(<<"CheckResponse", "HAM">>)

\* ---------------------------------------------------------------------------
\* C28. The checks of a response come in a fixed order: a response with an
\* error status and the body "invalid" raises RequestError, not
\* APIKeyError; and the body "invalid" raises APIKeyError before the
\* operation reads the response, so key_sites asked for CSV raises
\* APIKeyError instead of returning the text "invalid".
\* ---------------------------------------------------------------------------
C28_StatusThenInvalidKeyThenOperation ==
    /\ (call.op \in NonVerifyOps /\ Done /\ ErrorStatusAnswer
            /\ call.answer.text = "invalid") =>
          RaisesError("RequestError") /\ call.out.status = call.answer.status
    /\ (call.op \in NonVerifyOps /\ Transported
            /\ call.answer.text = "invalid") =>
          RaisesError("APIKeyError")
    /\ (WantsCsv /\ Transported /\ call.answer.text = "invalid") =>
          ~Returns(<<"text", "invalid">>)

\* usage_limit answered status 500 with the body "invalid".
C28_Witness ==
    /\ call.op = "usage_limit"
    /\ Done
    /\ ErrorStatusAnswer
    /\ call.answer.text = "invalid"
    /\ RaisesError("RequestError")

\* ---------------------------------------------------------------------------
\* C29. When the verify-key request of validated_client fails in the HTTP
\* call, validated_client raises RequestError; when it is answered a body
\* that is neither "valid" nor "invalid", ProtocolError. In both cases the
\* error is not APIKeyError, nothing is returned and no instance is handed
\* to the caller.
\* ---------------------------------------------------------------------------
C29_ValidatedClientErrorsPassThrough ==
    [][(call'.op = "validated_client" /\ call'.state = "done"
            /\ call'.answer # NoAnswer) =>
          /\ (call'.answer.exc # "none" \/ call'.answer.status \in 400..599) =>
                /\ call'.out.raised = "RequestError"
                /\ call'.out.ret = <<>>
                /\ instances' = instances
          /\ (/\ call'.answer.exc = "none"
              /\ call'.answer.status \in 200..299
              /\ call'.answer.text \notin {"valid", "invalid"}) =>
                /\ call'.out.raised = "ProtocolError"
                /\ call'.out.ret = <<>>
                /\ instances' = instances]_vars

\* validated_client whose verify-key request was answered "oops": it raised
\* ProtocolError and the caller holds no instance.
C29_Witness ==
    /\ call.op = "validated_client"
    /\ Transported
    /\ call.answer.text = "oops"
    /\ RaisesError("ProtocolError")
    /\ instances = {}

\* ---------------------------------------------------------------------------
\* C30. The invalid-key check is equality of the whole body with "invalid",
\* case-sensitive: a body that differs in case, has surrounding whitespace
\* or only contains the word does not raise APIKeyError; for comment_check,
\* submit_spam and submit_ham such a body raises ProtocolError.
\* ---------------------------------------------------------------------------
NearlyInvalid == {"Invalid", " invalid ", "invalid key"}

C30_InvalidKeyCheckIsExact ==
    (call.op \in NonVerifyOps /\ Transported
        /\ call.answer.text \in NearlyInvalid) =>
        /\ call.out.raised # "APIKeyError"
        /\ call.op \in PostOps => RaisesError("ProtocolError")

\* submit_ham answered " invalid " raised ProtocolError.
C30_Witness ==
    /\ call.op = "submit_ham"
    /\ Transported
    /\ call.answer.text = " invalid "
    /\ RaisesError("ProtocolError")

====
